---- MODULE Spec2Model ----
(***************************************************************************)
(* Model of the bootcamps controller (src/api/controllers/bootcamps.js)   *)
(* and its routes (src/api/routes/bootcamps.js).                           *)
(*                                                                         *)
(* JavaScript strings are modelled as sequences of one-character strings, *)
(* so that parseInt, JSON.stringify, the operator-rewriting regular       *)
(* expression, JSON.parse and String.startsWith are computed character by *)
(* character, as the code computes them.                                   *)
(***************************************************************************)
EXTENDS Integers, Sequences, FiniteSets, TLC

(***************************************************************************)
(* Bounds of the model.                                                    *)
(***************************************************************************)
\* Number of bootcamp ids the store can hand out (ids are 1..MaxDocs).
MaxDocs == 1

\* Largest collection the list handler is run against.
MaxListDocs == 3

(***************************************************************************)
(* Characters and JavaScript values.                                       *)
(***************************************************************************)
Letters ==
  {"a","b","c","d","e","f","g","h","i","j","k","l","m","n","o","p","q","r",
   "s","t","u","v","w","x","y","z","A","B","C","D","E","F","G","H","I","J",
   "K","L","M","N","O","P","Q","R","S","T","U","V","W","X","Y","Z"}

DigitChars == <<"0","1","2","3","4","5","6","7","8","9">>

Digits == {DigitChars[i] : i \in 1..10}

\* \w of a JavaScript regular expression: [A-Za-z0-9_]
IsWordChar(c) == c \in Letters \cup Digits \cup {"_"}

DigitVal(c) == (CHOOSE i \in 1..10 : DigitChars[i] = c) - 1

(***************************************************************************)
(* JavaScript values are tagged records, so that values of different      *)
(* kinds can be compared: a string, an object (ordered key/value pairs),  *)
(* undefined, null, and a number that may be NaN.                          *)
(***************************************************************************)
Str(s) == [t |-> "str", s |-> s]

Obj(kv) == [t |-> "obj", kv |-> kv]

Undefined == [t |-> "undefined"]

Null == [t |-> "null"]

Num(n) == [nan |-> FALSE, val |-> n]

NaN == [nan |-> TRUE, val |-> 0]

IsStr(v) == v.t = "str"

IsObj(v) == v.t = "obj"

\* obj[key], undefined when the object has no such key.
Get(obj, key) ==
  IF \E i \in 1..Len(obj.kv) : obj.kv[i].k = key
  THEN obj.kv[CHOOSE i \in 1..Len(obj.kv) : obj.kv[i].k = key].v
  ELSE Undefined

\* JavaScript truthiness of a query-string value: undefined and "" are falsy.
Truthy(v) == ~(v.t = "undefined" \/ (v.t = "str" /\ v.s = <<>>))

\* s.startsWith(p)
StartsWith(s, p) == Len(s) >= Len(p) /\ SubSeq(s, 1, Len(p)) = p

\* Value of a sequence of decimal digits.
RECURSIVE DigitsValue(_)
DigitsValue(ds) ==
  IF ds = <<>> THEN 0
  ELSE 10 * DigitsValue(SubSeq(ds, 1, Len(ds) - 1)) + DigitVal(ds[Len(ds)])

\* Longest prefix of s made of decimal digits.
RECURSIVE DigitPrefix(_)
DigitPrefix(s) ==
  IF s = <<>> \/ s[1] \notin Digits THEN <<>>
  ELSE <<s[1]>> \o DigitPrefix(Tail(s))

RECURSIVE TrimLeft(_)
TrimLeft(s) == IF s # <<>> /\ s[1] = " " THEN TrimLeft(Tail(s)) ELSE s

\* parseInt(v, 10): leading blanks skipped, an optional sign, then the longest
\* run of digits; NaN when there is none (also for undefined and for objects).
ParseInt(v) ==
  IF ~IsStr(v) THEN NaN
  ELSE LET t == TrimLeft(v.s)
           neg == t # <<>> /\ t[1] = "-"
           u == IF t # <<>> /\ t[1] \in {"-", "+"} THEN Tail(t) ELSE t
           ds == DigitPrefix(u)
       IN IF ds = <<>> THEN NaN
          ELSE IF neg THEN Num(0 - DigitsValue(ds)) ELSE Num(DigitsValue(ds))

\* Numeric coercion of a value by a comparison or a division: a run of digits
\* (the empty string is 0), NaN otherwise, also for undefined.
ToNumber(v) ==
  IF ~IsStr(v) THEN NaN
  ELSE IF DigitPrefix(v.s) = v.s THEN Num(DigitsValue(v.s)) ELSE NaN

\* a > b after numeric coercion: false when either side is NaN.
JsGreater(a, b) == ~a.nan /\ ~b.nan /\ a.val > b.val

\* a || b where a is a number: NaN and 0 are falsy. The result is an integer.
OrElse(a, b) == IF a.nan \/ a.val = 0 THEN b ELSE a.val

(***************************************************************************)
(* JSON.stringify, the operator-rewriting replace, and JSON.parse.        *)
(***************************************************************************)
Quote(s) == <<"\"">> \o s \o <<"\"">>

RECURSIVE Stringify(_)
RECURSIVE StringifyMembers(_, _)
\* JSON.stringify(v) for strings without quotes or backslashes, and objects.
Stringify(v) ==
  IF IsStr(v) THEN Quote(v.s)
  ELSE <<"{">> \o StringifyMembers(v.kv, 1) \o <<"}">>

StringifyMembers(kv, i) ==
  IF i > Len(kv) THEN <<>>
  ELSE (IF i > 1 THEN <<",">> ELSE <<>>)
       \o Quote(kv[i].k) \o <<":">> \o Stringify(kv[i].v)
       \o StringifyMembers(kv, i + 1)

kw_gt == <<"g","t">>
kw_gte == <<"g","t","e">>
kw_lt == <<"l","t">>
kw_lte == <<"l","t","e">>
kw_in == <<"i","n">>

\* The alternatives of the regular expression (gt|gte|lt|lte|in).
Keywords == {kw_gt, kw_gte, kw_lt, kw_lte, kw_in}

\* Longest prefix of s made of word characters.
RECURSIVE WordPrefix(_)
WordPrefix(s) ==
  IF s = <<>> \/ ~IsWordChar(s[1]) THEN <<>>
  ELSE <<s[1]>> \o WordPrefix(Tail(s))

\* The replacement of one match: (match) => `$${match}`
Replacement(match) == <<"$">> \o match

\* s.replace(/\b(gt|gte|lt|lte|in)\b/g, ...): a match starts where a run of word
\* characters starts (\b), is one of the alternatives, and ends where the run
\* ends (\b); prevWord tells whether the character before s is a word character.
RECURSIVE ReplaceOperators(_, _)
ReplaceOperators(s, prevWord) ==
  IF s = <<>> THEN <<>>
  ELSE IF IsWordChar(s[1]) /\ ~prevWord
       THEN LET run == WordPrefix(s)
                rest == SubSeq(s, Len(run) + 1, Len(s))
            IN (IF run \in Keywords THEN Replacement(run) ELSE run)
               \o ReplaceOperators(rest, TRUE)
       ELSE <<s[1]>> \o ReplaceOperators(Tail(s), IsWordChar(s[1]))

\* JSON.parse of a string literal starting at s[i]: [val, nxt].
JsonString(s, i) ==
  LET j == CHOOSE j \in (i + 1)..Len(s) :
             s[j] = "\"" /\ \A m \in (i + 1)..(j - 1) : s[m] # "\""
  IN [val |-> SubSeq(s, i + 1, j - 1), nxt |-> j + 1]

RECURSIVE JsonValue(_, _)
RECURSIVE JsonMembers(_, _, _)
\* JSON.parse of the value starting at s[i]: [val, nxt].
JsonValue(s, i) ==
  IF s[i] = "{"
  THEN IF s[i + 1] = "}" THEN [val |-> Obj(<<>>), nxt |-> i + 2]
       ELSE JsonMembers(s, i + 1, <<>>)
  ELSE LET r == JsonString(s, i) IN [val |-> Str(r.val), nxt |-> r.nxt]

JsonMembers(s, i, acc) ==
  LET key == JsonString(s, i)
      v == JsonValue(s, key.nxt + 1)
      acc2 == Append(acc, [k |-> key.val, v |-> v.val])
  IN IF s[v.nxt] = "," THEN JsonMembers(s, v.nxt + 1, acc2)
     ELSE [val |-> Obj(acc2), nxt |-> v.nxt + 1]

JsonParse(s) == JsonValue(s, 1).val

(***************************************************************************)
(* State.                                                                  *)
(***************************************************************************)
VARIABLES
  store,   \* the bootcamp collection: id -> document, for the ids present
  nextId,  \* the id the data layer gives to the next created document
  env,     \* process.env.FILE_MAX_UPLOAD_LIMIT: a string, or undefined
  req,     \* per connection: the handler invocation in progress and its locals
  res,     \* per connection: the JSON responses sent (res.status(..).json(..))
  fwd,     \* per connection: the errors passed to next(..)
  moved,   \* per connection: whether the invocation has called file.mv
  wrote    \* per connection: whether the invocation has changed the store (history)

vars == <<store, nextId, env, req, res, fwd, moved, wrote>>

\* Connections that can be served at the same time.
Slots == {"r1", "r2"}

\* The connections that serve every route; the others serve the routes that
\* write (POST /, PUT /:id, DELETE /:id, PUT /:id/photo).
ReadSlots == {"r1"}

\* The connection the list-handler specification uses.
ListSlot == "r1"

Ids == 1..MaxDocs

Idle == [h |-> "idle", pc |-> "idle", promise |-> "none", cb |-> "none"]

\* An invocation record: handler, position, the state of the promise of the
\* async function (and of the async file-move callback), and the locals.
Invocation(h, pc, promise, locals) ==
  [h |-> h, pc |-> pc, promise |-> promise, cb |-> "none"] @@ locals

(***************************************************************************)
(* Bootcamp documents and the data layer (Bootcamp model, not under src/).*)
(***************************************************************************)
\* The photo of a document no photo was uploaded for.
NoPhoto == <<"n","o","-","p","h","o","t","o",".","j","p","g">>

Doc(id, name, cost, photo) ==
  [t |-> "doc", id |-> id, name |-> name, cost |-> cost, photo |-> photo]

\* Bootcamp.findById(id): the document, or null.
FindById(id) == IF id \in DOMAIN store THEN store[id] ELSE Null

\* The local `bootcamp` of the delete and upload handlers: of the document found
\* only _id is read afterwards, so only _id is kept.
Found(doc) == IF doc = Null THEN Null ELSE [t |-> "doc", id |-> doc.id]

\* Bootcamp.countDocuments(): the number of documents, whatever the filter.
CountDocuments == Cardinality(DOMAIN store)

\* The store with document id removed (a no-op when it is not there).
Removed(id) == [i \in DOMAIN store \ {id} |-> store[i]]

\* The store with the fields of `fields` written onto document id.
Updated(id, fields) == [store EXCEPT ![id] = fields @@ @]

\* The error a failing data-layer or geocoder call rejects with: a plain Error,
\* which carries no statusCode.
PlainError(step) ==
  [t |-> "Error", statusCode |-> 0, message |-> [text |-> step, arg |-> 0]]

\* new ErrorResponse(message, statusCode)
ErrorResponse(text, arg, statusCode) ==
  [t |-> "ErrorResponse", statusCode |-> statusCode,
   message |-> [text |-> text, arg |-> arg]]

\* Faulty variant of NotFound: the message does not carry the id.
NotFoundWithoutId(id) == ErrorResponse("Bootcamp not found", 0, 404)

\* `Bootcamp not found with id of ${req.params.id}`, 404
NotFound(id) == ErrorResponse("Bootcamp not found with id of ${id}", id, 404)

(***************************************************************************)
(* Outcomes of an invocation.                                              *)
(***************************************************************************)
\* res.status(status).json(body)
Send(s, status, body) ==
  res' = [res EXCEPT ![s] = Append(@, [status |-> status, body |-> body])]

\* next(err)
Forward(s, err) == fwd' = [fwd EXCEPT ![s] = Append(@, err)]

\* asyncHandler: a rejection of the wrapped async function is passed to next.
AsyncHandlerCatch(s, err) == Forward(s, err)

\* History: the invocation of connection s has changed the store.
Track(s) == wrote' = [wrote EXCEPT ![s] = @ \/ store' # store]

\* The async function rejects with err at `step`: asyncHandler forwards it.
Reject(s, h, locals, err) ==
  /\ req' = [req EXCEPT ![s] = Invocation(h, "done", "rejected", locals @@ [error |-> err])]
  /\ AsyncHandlerCatch(s, err)
  /\ UNCHANGED res

\* return next(err): the async function returns normally after forwarding err.
ReturnNext(s, h, locals, err) ==
  /\ req' = [req EXCEPT ![s] = Invocation(h, "done", "fulfilled", locals)]
  /\ Forward(s, err)
  /\ UNCHANGED res

\* res.status(status).json(body) as the last statement of the async function.
Respond(s, h, locals, status, body) ==
  /\ req' = [req EXCEPT ![s] = Invocation(h, "done", "fulfilled", locals)]
  /\ Send(s, status, body)
  /\ UNCHANGED fwd

(***************************************************************************)
(* GET /:id, POST /, PUT /:id                                              *)
(***************************************************************************)
\* Request bodies of create and update.
name_ab == <<"a","b">>
name_in == <<"i","n">>

CreateBodies == {[name |-> name_ab, cost |-> 1]}

UpdateBodies == {[name |-> name_in]}

getBootcamp(s, id) ==
  /\ req[s].h = "idle"
  /\ \E ok \in BOOLEAN :
       LET bootcamp == FindById(id)
           locals == [id |-> id]
       IN IF ~ok THEN Reject(s, "getBootcamp", locals, PlainError("findById"))
          ELSE IF bootcamp = Null
               THEN ReturnNext(s, "getBootcamp", locals, NotFound(id))
               ELSE Respond(s, "getBootcamp", locals, 200,
                            [success |-> TRUE, data |-> bootcamp])
  /\ UNCHANGED <<store, nextId, env, moved>>
  /\ Track(s)

createBootcamp(s, body) ==
  /\ req[s].h = "idle"
  /\ \E ok \in BOOLEAN :
       LET bootcamp == Doc(nextId, body.name, body.cost, NoPhoto)
           locals == [id |-> 0]
       IN IF ~ok
          THEN /\ Reject(s, "createBootcamp", locals, PlainError("create"))
               /\ UNCHANGED <<store, nextId>>
          ELSE /\ nextId <= MaxDocs
               /\ store' = (nextId :> bootcamp) @@ store
               /\ nextId' = nextId + 1
               /\ Respond(s, "createBootcamp", locals, 201,
                          [success |-> TRUE, data |-> bootcamp])
  /\ UNCHANGED <<env, moved>>
  /\ Track(s)

updateBootcamp(s, id, body) ==
  /\ req[s].h = "idle"
  /\ \E ok \in BOOLEAN :
       LET locals == [id |-> id]
       IN IF ~ok
          THEN /\ Reject(s, "updateBootcamp", locals, PlainError("findByIdAndUpdate"))
               /\ UNCHANGED store
          ELSE IF id \notin DOMAIN store
               THEN /\ ReturnNext(s, "updateBootcamp", locals, NotFound(id))
                    /\ UNCHANGED store
               ELSE /\ store' = Updated(id, body)
                    /\ Respond(s, "updateBootcamp", locals, 200,
                               [success |-> TRUE, data |-> store'[id]])
  /\ UNCHANGED <<nextId, env, moved>>
  /\ Track(s)

(***************************************************************************)
(* DELETE /:id                                                             *)
(***************************************************************************)
\* const bootcamp = await Bootcamp.findById(req.params.id); if (!bootcamp) ...
deleteBootcamp_findById(s, id) ==
  /\ req[s].h = "idle"
  /\ \E ok \in BOOLEAN :
       LET bootcamp == Found(FindById(id))
           locals == [id |-> id, bootcamp |-> bootcamp]
       IN IF ~ok
          THEN Reject(s, "deleteBootcamp", [id |-> id, bootcamp |-> Null],
                      PlainError("findById"))
          ELSE IF bootcamp = Null
               THEN ReturnNext(s, "deleteBootcamp", locals, NotFound(id))
               ELSE /\ req' = [req EXCEPT ![s] =
                                 Invocation("deleteBootcamp", "remove", "pending", locals)]
                    /\ UNCHANGED <<res, fwd>>
  /\ UNCHANGED <<store, nextId, env, moved>>
  /\ Track(s)

\* await bootcamp.remove(); res.status(200).json({ success: true, data: {} })
deleteBootcamp_remove(s) ==
  /\ req[s].h = "deleteBootcamp" /\ req[s].pc = "remove"
  /\ \E ok \in BOOLEAN :
       LET locals == [id |-> req[s].id, bootcamp |-> req[s].bootcamp]
       IN IF ~ok
          THEN /\ Reject(s, "deleteBootcamp", locals, PlainError("remove"))
               /\ UNCHANGED store
          ELSE /\ store' = Removed(req[s].bootcamp.id)
               /\ Respond(s, "deleteBootcamp", locals, 200,
                          [success |-> TRUE, data |-> Obj(<<>>)])
  /\ UNCHANGED <<nextId, env, moved>>
  /\ Track(s)

(***************************************************************************)
(* PUT /:id/photo                                                          *)
(***************************************************************************)
mime_image == <<"i","m","a","g","e">>

\* Faulty variant of IsImage: receiver and argument of startsWith exchanged.
IsImageSwapped(file) == StartsWith(mime_image, file.mimetype)

\* file.mimetype.startsWith('image')
IsImage(file) == StartsWith(file.mimetype, mime_image)

\* Faulty variant of TooLarge: >= in place of >.
TooLargeOrEqual(file) ==
  ~ToNumber(env).nan /\ file.size >= ToNumber(env).val

\* file.size > process.env.FILE_MAX_UPLOAD_LIMIT: the environment string is
\* coerced to a number by the comparison.
TooLarge(file) == JsGreater(Num(file.size), ToNumber(env))

\* path.parse(name).ext: from the last dot to the end, empty when there is no
\* dot or the only dot starts the name.
PathExt(name) ==
  LET dots == {i \in 1..Len(name) : name[i] = "."}
      last == CHOOSE i \in dots : \A j \in dots : j <= i
  IN IF dots = {} \/ last = 1 THEN <<>> ELSE SubSeq(name, last, Len(name))

\* String(n) of a natural number.
RECURSIVE NatToChars(_)
NatToChars(n) ==
  IF n < 10 THEN <<DigitChars[n + 1]>>
  ELSE NatToChars(n \div 10) \o <<DigitChars[(n % 10) + 1]>>

\* `BOOTCAMP_${bootcamp._id}_${date}${path.parse(file.name).ext}`
CustomName(bootcamp, date, file) ==
  <<"B","O","O","T","C","A","M","P","_">> \o NatToChars(bootcamp.id) \o <<"_">>
  \o date \o PathExt(file.name)

\* new Date().toLocaleDateString('lv-LV').split('.').join('')
Dates == {<<"0","2","1","1","2","0","2","6">>}

File(name, mimetype, size) ==
  [t |-> "file", name |-> name, mimetype |-> mimetype, size |-> size]

\* req.files: undefined when nothing is attached, else the attached `file`.
FilesSamples ==
  { Undefined,
    [t |-> "files", file |-> File(<<"a",".","j","p","g">>,
        <<"i","m","a","g","e","/","j","p","e","g">>, 9)],
    [t |-> "files", file |-> File(<<"b",".","p","n","g">>,
        <<"i","m","a","g","e","/","p","n","g">>, 10)],
    [t |-> "files", file |-> File(<<"c">>,
        <<"i","m","a","g">>, 10)] }

\* Values of process.env.FILE_MAX_UPLOAD_LIMIT: "9", or not set.
EnvSamples == {Str(<<"9">>), Undefined}

\* The checks of the handler, in the order of the code: the first that fails.
UploadCheck(bootcamp, files) ==
  IF bootcamp = Null THEN "notfound"
  ELSE IF files = Undefined THEN "nofile"
  ELSE IF ~IsImage(files.file) THEN "notimage"
  ELSE IF TooLarge(files.file) THEN "toolarge"
  ELSE "move"

\* The ErrorResponse of a failed check.
UploadError(check, id) ==
  IF check = "notfound" THEN NotFound(id)
  ELSE IF check = "nofile" THEN ErrorResponse("Please upload a file.", 0, 400)
  ELSE IF check = "notimage" THEN ErrorResponse("Please upload an image file.", 0, 400)
  ELSE ErrorResponse("Please upload an image less than ${limit}mb.", 0, 400)

\* Faulty variant of Returns: the size check calls next(...) without `return`.
ReturnsButForSize(check) == check \notin {"move", "toolarge"}

\* Every failed check leaves the handler: `return next(...)`.
Returns(check) == check # "move"

\* The handler up to and including the call of file.mv.
bootcampUploadPhoto(s, id, files) ==
  /\ req[s].h = "idle"
  /\ \E ok \in BOOLEAN, date \in Dates :
       LET bootcamp == Found(FindById(id))
           h == "bootcampUploadPhoto"
           locals == [id |-> id, bootcamp |-> bootcamp, files |-> files]
           check == UploadCheck(bootcamp, files)
       IN IF ~ok
          THEN /\ Reject(s, h, [id |-> id, bootcamp |-> Null, files |-> files],
                         PlainError("findById"))
               /\ UNCHANGED moved
          ELSE /\ IF check # "move" THEN Forward(s, UploadError(check, id))
                  ELSE UNCHANGED fwd
               /\ IF Returns(check)
                  THEN /\ req' = [req EXCEPT ![s] = Invocation(h, "done", "fulfilled", locals)]
                       /\ UNCHANGED moved
                  ELSE /\ req' = [req EXCEPT ![s] =
                                    Invocation(h, "moving", "fulfilled",
                                      [id |-> id, bootcamp |-> bootcamp,
                                       files |-> [files EXCEPT !.file.name =
                                                    CustomName(bootcamp, date, files.file)]])]
                       /\ moved' = [moved EXCEPT ![s] = TRUE]
               /\ UNCHANGED res
  /\ UNCHANGED <<store, nextId, env>>
  /\ Track(s)

\* The move completes and calls back: with an error, next(500); without, the
\* callback awaits Bootcamp.findByIdAndUpdate.
mv_callback(s) ==
  /\ req[s].h = "bootcampUploadPhoto" /\ req[s].pc = "moving"
  /\ \E err \in BOOLEAN :
       IF err
       THEN /\ req' = [req EXCEPT ![s].pc = "done", ![s].cb = "fulfilled"]
            /\ Forward(s, ErrorResponse("Problem with file upload. Try again later.", 0, 500))
            /\ UNCHANGED res
       ELSE /\ req' = [req EXCEPT ![s].pc = "persist", ![s].cb = "pending"]
            /\ UNCHANGED <<res, fwd>>
  /\ UNCHANGED <<store, nextId, env, moved>>
  /\ Track(s)

\* await Bootcamp.findByIdAndUpdate(req.params.id, { photo: file.name }) inside
\* the callback: its result is not looked at, and the callback is not wrapped
\* by asyncHandler, so a rejection is handled by nobody.
mv_callback_findByIdAndUpdate(s) ==
  /\ req[s].h = "bootcampUploadPhoto" /\ req[s].pc = "persist"
  /\ \E ok \in BOOLEAN :
       IF ~ok
       THEN /\ req' = [req EXCEPT ![s] =
                         [@ EXCEPT !.pc = "done", !.cb = "rejected"]
                         @@ [error |-> PlainError("findByIdAndUpdate")]]
            /\ UNCHANGED store
       ELSE /\ req' = [req EXCEPT ![s].pc = "respond"]
            /\ store' = IF req[s].id \in DOMAIN store
                        THEN Updated(req[s].id, [photo |-> req[s].files.file.name])
                        ELSE store
  /\ UNCHANGED <<nextId, env, res, fwd, moved>>
  /\ Track(s)

\* res.status(200).json({ success: true, data: file.name })
mv_callback_json(s) ==
  /\ req[s].h = "bootcampUploadPhoto" /\ req[s].pc = "respond"
  /\ req' = [req EXCEPT ![s].pc = "done", ![s].cb = "fulfilled"]
  /\ Send(s, 200, [success |-> TRUE, data |-> req[s].files.file.name])
  /\ UNCHANGED <<store, nextId, env, fwd, moved>>
  /\ Track(s)

(***************************************************************************)
(* GET /  (list, filter, sort, paginate)                                   *)
(***************************************************************************)
k_select == <<"s","e","l","e","c","t">>
k_sort == <<"s","o","r","t">>
k_page == <<"p","a","g","e">>
k_limit == <<"l","i","m","i","t">>
k_name == <<"n","a","m","e">>
k_cost == <<"c","o","s","t">>

(***************************************************************************)
(* The data layer's execution of a query.  A filter entry on `name` is an *)
(* equality; on `cost` an equality or an object of $gt/$gte/$lt/$lte       *)
(* comparisons; an entry on any other path matches no document; anything  *)
(* else on a known path is a cast error.  A negative skip is an error; a   *)
(* negative limit is served as its absolute value; ids grow with           *)
(* createdAt.                                                              *)
(***************************************************************************)
op_gt == <<"$","g","t">>
op_gte == <<"$","g","t","e">>
op_lt == <<"$","l","t">>
op_lte == <<"$","l","t","e">>

Compare(op, a, b) ==
  IF op = op_gt THEN a > b
  ELSE IF op = op_gte THEN a >= b
  ELSE IF op = op_lt THEN a < b
  ELSE a <= b

EntryValid(e) ==
  IF e.k = k_name THEN IsStr(e.v)
  ELSE IF e.k = k_cost
  THEN IF IsStr(e.v) THEN ~ToNumber(e.v).nan
       ELSE \A i \in 1..Len(e.v.kv) :
              /\ e.v.kv[i].k \in {op_gt, op_gte, op_lt, op_lte}
              /\ ~ToNumber(e.v.kv[i].v).nan
  ELSE TRUE

QueryValid(q) ==
  /\ q.skip >= 0
  /\ \A i \in 1..Len(q.filter.kv) : EntryValid(q.filter.kv[i])

EntryMatches(doc, e) ==
  IF e.k = k_name THEN doc.name = e.v.s
  ELSE IF e.k = k_cost
  THEN IF IsStr(e.v) THEN doc.cost = ToNumber(e.v).val
       ELSE \A i \in 1..Len(e.v.kv) :
              Compare(e.v.kv[i].k, doc.cost, ToNumber(e.v.kv[i].v).val)
  ELSE FALSE

Matches(doc, filter) == \A i \in 1..Len(filter.kv) : EntryMatches(doc, filter.kv[i])

\* The ids of `ids` in ascending order.
RECURSIVE Ascending(_)
Ascending(ids) ==
  IF ids = {} THEN <<>>
  ELSE LET m == CHOOSE i \in ids : \A j \in ids : i <= j
       IN <<m>> \o Ascending(ids \ {m})

Reverse(seq) == [i \in 1..Len(seq) |-> seq[Len(seq) + 1 - i]]

Abs(n) == IF n < 0 THEN 0 - n ELSE n

Min(a, b) == IF a < b THEN a ELSE b

ExecQuery(q) ==
  LET ids == {i \in DOMAIN store : Matches(store[i], q.filter)}
      sorted == IF q.sortBy[1] = "-" THEN Reverse(Ascending(ids)) ELSE Ascending(ids)
      last == IF q.limit = 0 THEN Len(sorted) ELSE Min(Len(sorted), q.skip + Abs(q.limit))
  IN [i \in 1..(IF last > q.skip THEN last - q.skip ELSE 0) |-> store[sorted[q.skip + i]]]


\* const removeFields = ['select', 'sort', 'page', 'limit']
RemoveFields == {k_select, k_sort, k_page, k_limit}

\* const reqQuery = { ...req.query }; removeFields.forEach(delete reqQuery[param])
ReqQuery(query) == Obj(SelectSeq(query.kv, LAMBDA e : e.k \notin RemoveFields))

\* queryStr = JSON.stringify(reqQuery).replace(/\b(gt|gte|lt|lte|in)\b/g, ...)
QueryStr(query) == ReplaceOperators(Stringify(ReqQuery(query)), FALSE)

\* The filter handed to Bootcamp.find: JSON.parse(queryStr)
FindFilter(query) == JsonParse(QueryStr(query))

\* s.replace(/,/g, ' ')
RECURSIVE CommaToSpace(_)
CommaToSpace(s) ==
  IF s = <<>> THEN <<>>
  ELSE <<IF s[1] = "," THEN " " ELSE s[1]>> \o CommaToSpace(Tail(s))

\* if (req.query.select) query.select(req.query.select.replace(/,/g, ' '))
SelectFields(query) ==
  IF Truthy(Get(query, k_select)) THEN CommaToSpace(Get(query, k_select).s)
  ELSE <<>>

\* if (req.query.sort) sort(req.query.sort.replace(/,/g, ' ')) else sort('-createdAt')
SortBy(query) ==
  IF Truthy(Get(query, k_sort)) THEN CommaToSpace(Get(query, k_sort).s)
  ELSE <<"-","c","r","e","a","t","e","d","A","t">>

DefaultPage == 1
DefaultLimit == 20

\* const page = parseInt(req.query.page, 10) || 1
Page(query) == OrElse(ParseInt(Get(query, k_page)), DefaultPage)

\* Faulty variant of Limit: the parsed value is used as it is, 0 included.
LimitAsGiven(query) ==
  IF ParseInt(Get(query, k_limit)).nan THEN DefaultLimit
  ELSE ParseInt(Get(query, k_limit)).val

\* const limit = parseInt(req.query.limit, 10) || 20
Limit(query) == OrElse(ParseInt(Get(query, k_limit)), DefaultLimit)

\* const startIndex = (page - 1) * limit
StartIndex(page, limit) == (page - 1) * limit

\* const endIndex = page * limit
EndIndex(page, limit) == page * limit

\* if (endIndex < total) pagination.next = ...
HasNext(endIndex, total) == endIndex < total

\* if (startIndex > 0) pagination.prev = ...
HasPrev(startIndex) == startIndex > 0

\* Faulty variant of Total: the documents the filter matches are counted.
TotalOfFilter(query) ==
  Cardinality({i \in DOMAIN store : Matches(store[i], FindFilter(query))})

\* The total the next-page test uses: await Bootcamp.countDocuments()
Total(query) == CountDocuments

\* The pagination object; an absent key is an empty sequence.
Pagination(page, limit, startIndex, endIndex, total) ==
  [next |-> IF HasNext(endIndex, total)
            THEN <<[page |-> page + 1, limit |-> limit]>> ELSE <<>>,
   prev |-> IF HasPrev(startIndex)
            THEN <<[page |-> page - 1, limit |-> limit]>> ELSE <<>>]

\* query.skip(startIndex).limit(limit) on the find/select/sort query
BuildQuery(query, startIndex, limit) ==
  [filter |-> FindFilter(query), fields |-> SelectFields(query),
   sortBy |-> SortBy(query), skip |-> startIndex, limit |-> limit]

\* The handler up to and including await Bootcamp.countDocuments().
getBootcamps_countDocuments(s, query) ==
  /\ req[s].h = "idle"
  /\ \E ok \in BOOLEAN :
       LET page == Page(query)
           limit == Limit(query)
           startIndex == StartIndex(page, limit)
           endIndex == EndIndex(page, limit)
       IN IF ~ok
          THEN Reject(s, "getBootcamps", [q |-> query], PlainError("countDocuments"))
          ELSE /\ req' = [req EXCEPT ![s] =
                            Invocation("getBootcamps", "exec", "pending",
                              [q |-> query,
                               query |-> BuildQuery(query, startIndex, limit),
                               page |-> page, limit |-> limit,
                               startIndex |-> startIndex, endIndex |-> endIndex,
                               total |-> Total(query)])]
               /\ UNCHANGED <<res, fwd>>
  /\ UNCHANGED <<store, nextId, env, moved>>
  /\ Track(s)

\* const bootcamps = await query; ... res.status(200).json({...})
getBootcamps_query(s) ==
  /\ req[s].h = "getBootcamps" /\ req[s].pc = "exec"
  /\ \E ok \in BOOLEAN :
       LET r == req[s]
           locals == [q |-> r.q, query |-> r.query, page |-> r.page,
                      limit |-> r.limit, total |-> r.total]
           bootcamps == ExecQuery(r.query)
       IN IF ~ok \/ ~QueryValid(r.query)
          THEN Reject(s, "getBootcamps", locals, PlainError("find"))
          ELSE Respond(s, "getBootcamps", locals, 200,
                 [success |-> TRUE, count |-> Len(bootcamps),
                  pagination |-> Pagination(r.page, r.limit, r.startIndex,
                                            r.endIndex, r.total),
                  data |-> [t |-> "list", items |-> bootcamps,
                            fields |-> r.query.fields]])
  /\ UNCHANGED <<store, nextId, env, moved>>
  /\ Track(s)

(***************************************************************************)
(* GET /radius/:zipcode/:distance                                          *)
(***************************************************************************)
\* Earth radius in km
EarthRadius == 6378

\* const radius = distance / 6378, kept as a fraction; NaN when distance is.
Radius(distance) ==
  [nan |-> ToNumber(distance).nan, num |-> ToNumber(distance).val, den |-> EarthRadius]

\* What geocoder.geocode(zipcode) resolves with: no entry, or one location.
GeocodeResults == {<<>>, <<[latitude |-> 34, longitude |-> -118]>>}

Distances == {Str(<<"1","0">>), Str(<<"f","a","r">>)}

\* The handler up to the find: geocode, location[0], radius.
getBootcampsByDistance_geocode(s, distance) ==
  /\ req[s].h = "idle"
  /\ \E ok \in BOOLEAN, location \in GeocodeResults :
       LET h == "getBootcampsByDistance"
           locals == [distance |-> distance]
       IN IF ~ok THEN Reject(s, h, locals, PlainError("geocode"))
          ELSE IF location = <<>>
          THEN Reject(s, h, locals, PlainError("TypeError: location[0] is undefined"))
          ELSE /\ req' = [req EXCEPT ![s] =
                            Invocation(h, "find", "pending",
                              [distance |-> distance,
                               lat |-> location[1].latitude,
                               lng |-> location[1].longitude,
                               radius |-> Radius(distance)])]
               /\ UNCHANGED <<res, fwd>>
  /\ UNCHANGED <<store, nextId, env, moved>>
  /\ Track(s)

\* await Bootcamp.find({ location: { $geoWithin: ... } }): the documents within
\* the radius are some of the store's (locations are not modelled); a NaN
\* radius is rejected by the data layer.
getBootcampsByDistance_find(s) ==
  /\ req[s].h = "getBootcampsByDistance" /\ req[s].pc = "find"
  /\ \E ok \in BOOLEAN, within \in SUBSET DOMAIN store :
       LET r == req[s]
           locals == [distance |-> r.distance, radius |-> r.radius]
           bootcamps == [i \in 1..Cardinality(within) |-> store[Ascending(within)[i]]]
       IN IF ~ok \/ r.radius.nan
          THEN Reject(s, "getBootcampsByDistance", locals, PlainError("find"))
          ELSE Respond(s, "getBootcampsByDistance", locals, 200,
                 [success |-> TRUE, count |-> Len(bootcamps),
                  data |-> [t |-> "list", items |-> bootcamps, fields |-> <<>>]])
  /\ UNCHANGED <<store, nextId, env, moved>>
  /\ Track(s)

(***************************************************************************)
(* The connection is closed and can serve another request.                 *)
(***************************************************************************)
Reset(s) ==
  /\ req[s].pc = "done"
  /\ req' = [req EXCEPT ![s] = Idle]
  /\ res' = [res EXCEPT ![s] = <<>>]
  /\ fwd' = [fwd EXCEPT ![s] = <<>>]
  /\ moved' = [moved EXCEPT ![s] = FALSE]
  /\ wrote' = [wrote EXCEPT ![s] = FALSE]
  /\ UNCHANGED <<store, nextId, env>>

(***************************************************************************)
(* Requests.                                                               *)
(***************************************************************************)
KV(k, v) == [k |-> k, v |-> v]

\* Filter parts of a query string, as the query parser delivers them.
FilterSamples ==
  { <<>>,
    \* ?name=ab
    <<KV(k_name, Str(name_ab))>>,
    \* ?name=in
    <<KV(k_name, Str(name_in))>>,
    \* ?cost[gt]=1
    <<KV(k_cost, Obj(<<KV(kw_gt, Str(<<"1">>))>>))>>,
    \* ?cost[gte]=1&cost[lt]=2&name=ab
    <<KV(k_cost, Obj(<<KV(kw_gte, Str(<<"1">>)), KV(kw_lt, Str(<<"2">>))>>)),
      KV(k_name, Str(name_ab))>>,
    \* ?cost[$lte]=1
    <<KV(k_cost, Obj(<<KV(op_lte, Str(<<"1">>))>>))>>,
    \* ?check-in=ab
    <<KV(<<"c","h","e","c","k","-","i","n">>, Str(name_ab))>> }

PageSamples ==
  { <<>>, <<KV(k_page, Str(<<"0">>))>>, <<KV(k_page, Str(<<"1">>))>>,
    <<KV(k_page, Str(<<"2">>))>>, <<KV(k_page, Str(<<"-","1">>))>>,
    <<KV(k_page, Str(<<"2",".","5">>))>>, <<KV(k_page, Str(<<"x">>))>> }

LimitSamples ==
  { <<>>, <<KV(k_limit, Str(<<"0">>))>>, <<KV(k_limit, Str(<<"1">>))>>,
    <<KV(k_limit, Str(<<"2">>))>>, <<KV(k_limit, Str(<<"-","1">>))>>,
    <<KV(k_limit, Str(<<"1","e","1">>))>> }

SortSamples ==
  { <<>>,
    <<KV(k_sort, Str(<<"n","a","m","e",",","c","o","s","t">>)),
      KV(k_select, Str(<<"n","a","m","e",",","c","o","s","t">>))>> }

\* req.query of the list requests of the list-handler specification.
ListQueries ==
  { Obj(f \o p \o l \o o) :
      f \in FilterSamples, p \in PageSamples, l \in LimitSamples, o \in SortSamples }

\* req.query of the list requests served next to the other handlers.
FewQueries ==
  { Obj(<<>>),
    Obj(<<KV(k_name, Str(name_in)), KV(k_page, Str(<<"2">>)), KV(k_limit, Str(<<"1">>))>>) }

(***************************************************************************)
(* Specifications.                                                         *)
(***************************************************************************)
NoneYet == [s \in Slots |-> <<>>]

\* The server starts with an empty collection and no request in progress.
Init ==
  /\ store = <<>>
  /\ nextId = 1
  /\ env \in EnvSamples
  /\ req = [s \in Slots |-> Idle]
  /\ res = NoneYet
  /\ fwd = NoneYet
  /\ moved = [s \in Slots |-> FALSE]
  /\ wrote = [s \in Slots |-> FALSE]

Next ==
  \/ \E s \in ReadSlots :
       \/ \E id \in Ids : getBootcamp(s, id)
       \/ \E query \in FewQueries : getBootcamps_countDocuments(s, query)
       \/ \E distance \in Distances : getBootcampsByDistance_geocode(s, distance)
  \/ \E s \in Slots :
       \/ \E body \in CreateBodies : createBootcamp(s, body)
       \/ \E id \in Ids, body \in UpdateBodies : updateBootcamp(s, id, body)
       \/ \E id \in Ids : deleteBootcamp_findById(s, id)
       \/ deleteBootcamp_remove(s)
       \/ \E id \in Ids, files \in FilesSamples : bootcampUploadPhoto(s, id, files)
       \/ mv_callback(s)
       \/ mv_callback_findByIdAndUpdate(s)
       \/ mv_callback_json(s)
       \/ getBootcamps_query(s)
       \/ getBootcampsByDistance_find(s)
       \/ Reset(s)

Spec == Init /\ [][Next]_vars

\* The collections the list handler is run against: documents 1..n, created in
\* that order, with names and costs that the filter samples tell apart.
SampleDoc(i) == Doc(i, IF i % 2 = 1 THEN name_ab ELSE name_in, i, NoPhoto)

InitList ==
  /\ \E n \in 0..MaxListDocs : store = [i \in 1..n |-> SampleDoc(i)] /\ nextId = n + 1
  /\ env \in EnvSamples
  /\ req = [s \in Slots |-> Idle]
  /\ res = NoneYet
  /\ fwd = NoneYet
  /\ moved = [s \in Slots |-> FALSE]
  /\ wrote = [s \in Slots |-> FALSE]

NextList ==
  \/ \E query \in ListQueries : getBootcamps_countDocuments(ListSlot, query)
  \/ getBootcamps_query(ListSlot)
  \/ Reset(ListSlot)

SpecList == InitList /\ [][NextList]_vars

(***************************************************************************)
(* Claims about the list handler, checked under SpecList.                  *)
(***************************************************************************)
\* The list responses sent so far.
ListResponded(s) == req[s].h = "getBootcamps" /\ res[s] # <<>>

\* C1: in every list response, pagination.next is present exactly when
\* page * limit < the number of ALL documents of the collection (whatever the
\* filter), page and limit being the values after defaulting; when present it
\* is {page: page + 1, limit}.
C1_NextIffMoreDocuments ==
  \A s \in Slots :
    ListResponded(s) =>
      LET page == req[s].page
          limit == req[s].limit
          next == res[s][1].body.pagination.next
      IN /\ (next # <<>>) <=> (page * limit < Cardinality(DOMAIN store))
         /\ next # <<>> => next = <<[page |-> page + 1, limit |-> limit]>>

\* A response with a next page, to a request whose filter matches fewer
\* documents than the collection holds.
C1_Witness ==
  \E s \in Slots :
    /\ ListResponded(s)
    /\ res[s][1].body.pagination.next # <<>>
    /\ req[s].page >= 1 /\ req[s].limit >= 1
    /\ res[s][1].body.count < req[s].limit
    /\ req[s].query.filter.kv # <<>>

\* C2: in every list response, pagination.prev is present exactly when the
\* effective page is greater than 1; when present it is {page: page - 1, limit}.
C2_PrevIffPageAboveOne ==
  \A s \in Slots :
    ListResponded(s) =>
      LET page == req[s].page
          limit == req[s].limit
          prev == res[s][1].body.pagination.prev
      IN /\ (prev # <<>>) <=> (page > 1)
         /\ prev # <<>> => prev = <<[page |-> page - 1, limit |-> limit]>>

\* The filter the claim C7 describes: control keys removed, every key that is a
\* bare comparison keyword prefixed with $ once, at every level; every other
\* key and every value unchanged.
RECURSIVE KeysRewritten(_)
KeysRewritten(v) ==
  IF IsStr(v) THEN v
  ELSE Obj([i \in 1..Len(v.kv) |->
              [k |-> IF v.kv[i].k \in Keywords THEN <<"$">> \o v.kv[i].k ELSE v.kv[i].k,
               v |-> KeysRewritten(v.kv[i].v)]])

WithoutControlKeys(query) ==
  Obj(SelectSeq(query.kv, LAMBDA e : e.k \notin {k_select, k_sort, k_page, k_limit}))

\* C7: the filter of the query issued is the request's query without select,
\* sort, page and limit, with each key gt, gte, lt, lte, in replaced by its
\* $-prefixed form, and with every other key and every value unchanged.
C7_OnlyKeysRewritten ==
  \A s \in Slots :
    (req[s].h = "getBootcamps" /\ req[s].pc = "exec") =>
      req[s].query.filter = KeysRewritten(WithoutControlKeys(req[s].q))

\* A string that is a decimal integer: an optional minus sign, then digits only.
IsDecimal(v) ==
  /\ IsStr(v)
  /\ LET u == IF v.s # <<>> /\ v.s[1] = "-" THEN Tail(v.s) ELSE v.s
     IN u # <<>> /\ DigitPrefix(u) = u

\* The value claim C8 gives page or limit: the default when the parameter is
\* absent, the number supplied (0 included) when it is a decimal integer; no
\* statement (the code's value `used`) for anything else.
AsSupplied(v, default, used) ==
  IF v = Undefined THEN default
  ELSE IF IsDecimal(v) THEN ParseInt(v).val
  ELSE used

\* C8 as stated: skip = (page - 1) * limit and limit = limit, page and limit
\* being the parameters as supplied (0 included), 1 and 20 when absent; and the
\* response's count is the number of documents returned and never exceeds limit.
C8_WindowAsSupplied ==
  \A s \in Slots :
    /\ (req[s].h = "getBootcamps" /\ req[s].pc = "exec") =>
         LET page == AsSupplied(Get(req[s].q, k_page), 1, req[s].page)
             limit == AsSupplied(Get(req[s].q, k_limit), 20, req[s].limit)
         IN /\ req[s].query.skip = (page - 1) * limit
            /\ req[s].query.limit = limit
    /\ ListResponded(s) =>
         /\ res[s][1].body.count = Len(res[s][1].body.data.items)
         /\ res[s][1].body.count <= req[s].limit

\* page and limit of the amended C8: the integer parseInt reads at the start of
\* the parameter when there is one other than 0, else the default.
ParsedOr(v, default) ==
  IF ParseInt(v).nan \/ ParseInt(v).val = 0 THEN default ELSE ParseInt(v).val

\* C8 amended: skip = (page - 1) * limit and limit = limit, where page (limit)
\* is the integer parseInt reads from the parameter, and 1 (20) when the
\* parameter is absent, not numeric or 0; the response's count is the number
\* of documents returned and never exceeds the absolute value of limit.
C8_Window ==
  \A s \in Slots :
    /\ (req[s].h = "getBootcamps" /\ req[s].pc = "exec") =>
         LET page == ParsedOr(Get(req[s].q, k_page), 1)
             limit == ParsedOr(Get(req[s].q, k_limit), 20)
         IN /\ req[s].query.skip = (page - 1) * limit
            /\ req[s].query.limit = limit
    /\ ListResponded(s) =>
         /\ res[s][1].body.count = Len(res[s][1].body.data.items)
         /\ res[s][1].body.count <= Abs(req[s].limit)

\* A response to ?page=2&limit=1 that fills its window, from a collection of
\* more than one document.
C8_Witness ==
  \E s \in Slots :
    /\ ListResponded(s)
    /\ Get(req[s].q, k_page) = Str(<<"2">>) /\ Get(req[s].q, k_limit) = Str(<<"1">>)
    /\ req[s].query.skip = 1
    /\ res[s][1].body.count = 1

(***************************************************************************)
(* Claims about the handlers served concurrently, checked under Spec.      *)
(***************************************************************************)
IsDelete(s) == req[s].h = "deleteBootcamp"

IsUpload(s) == req[s].h = "bootcampUploadPhoto"

\* The step is the one in which connection s sends a response.
Sends(s) == Len(res'[s]) > Len(res[s])

\* C3 as stated: a delete sends its success response only for an id that is in
\* the store when it acts (an id that is not there gets a 404 and no success
\* response), also when deletes of the same id overlap.
C3_DeleteOfAbsentIdIs404 ==
  [][\A s \in Slots : (IsDelete(s) /\ Sends(s)) => req[s].id \in DOMAIN store]_vars

\* C3 amended: a delete whose findById lookup finds no document forwards a 404
\* error whose message carries the id and sends no response; a delete whose
\* lookup finds the document, and whose remove does not fail, leaves the id out
\* of the store and responds 200 with success true and data {} (also when an
\* overlapping delete has removed the document in between).
C3_DeleteByLookup ==
  [][\A s \in Slots :
       /\ (req[s].h = "idle" /\ IsDelete(s)' /\ req'[s].promise # "rejected") =>
            IF req'[s].id \in DOMAIN store
            THEN req'[s].pc = "remove" /\ res'[s] = <<>> /\ fwd'[s] = <<>>
            ELSE /\ req'[s].pc = "done" /\ res'[s] = <<>>
                 /\ Len(fwd'[s]) = 1
                 /\ fwd'[s][1].statusCode = 404
                 /\ fwd'[s][1].message.arg = req'[s].id
       /\ (IsDelete(s) /\ req[s].pc = "remove" /\ req'[s].promise = "fulfilled") =>
            /\ req[s].id \notin DOMAIN store'
            /\ res'[s] = <<[status |-> 200,
                            body |-> [success |-> TRUE, data |-> Obj(<<>>)]]>>
            /\ fwd'[s] = <<>>]_vars

\* Two deletes of the same id are over: one answered 200, the other 404.
C3_Witness ==
  \E s, u \in Slots :
    /\ IsDelete(s) /\ IsDelete(u) /\ req[s].id = req[u].id
    /\ res[s] # <<>> /\ res[s][1].status = 200
    /\ fwd[u] # <<>> /\ fwd[u][1].statusCode = 404

\* The attached file of an upload request is not an image: its MIME type does
\* not start with the five characters of 'image'.
NonImageAttached(s) ==
  /\ IsUpload(s) /\ req[s].files # Undefined
  /\ LET m == req[s].files.file.mimetype
     IN Len(m) < 5 \/ SubSeq(m, 1, 5) # <<"i","m","a","g","e">>

ForwardedStatus(s) == {fwd[s][i].statusCode : i \in 1..Len(fwd[s])}

\* C4 as stated: whenever the attached file is not an image (and the lookup did
\* not fail), the handler forwards a 400 error, never calls file.mv and never
\* writes the photo; and no path that forwards 404 or 400 calls file.mv.
C4_NonImageGives400 ==
  \A s \in Slots :
    /\ (NonImageAttached(s) /\ req[s].promise # "rejected") =>
         /\ ForwardedStatus(s) = {400}
         /\ ~moved[s] /\ ~wrote[s]
    /\ (IsUpload(s) /\ ForwardedStatus(s) \cap {404, 400} # {}) => ~moved[s]

\* C4 amended: whenever the attached file is not an image, file.mv is never
\* called and the photo is never written by the request, no response is sent,
\* and (unless the lookup itself fails) the error forwarded is the 404 when the
\* entity is missing and the 400 'Please upload an image file.' when it exists;
\* and no path that forwards 404 or 400 calls file.mv.
C4_NonImageNeverMoved ==
  \A s \in Slots :
    /\ NonImageAttached(s) =>
         /\ ~moved[s] /\ ~wrote[s] /\ res[s] = <<>> /\ Len(fwd[s]) = 1
         /\ req[s].promise # "rejected" =>
              IF req[s].bootcamp = Null
              THEN ForwardedStatus(s) = {404}
              ELSE /\ ForwardedStatus(s) = {400}
                   /\ fwd[s][1].message.text = "Please upload an image file."
    /\ (IsUpload(s) /\ ForwardedStatus(s) \cap {404, 400} # {}) => ~moved[s]

\* A non-image upload for an existing bootcamp was refused with the 400.
C4_Witness ==
  \E s \in Slots :
    /\ NonImageAttached(s) /\ req[s].bootcamp # Null
    /\ ForwardedStatus(s) = {400}

\* C5: whenever an awaited step of a handler fails (the promise of the async
\* handler, or of the async file-move callback, is rejected), the error is
\* forwarded to next and no response is sent.
C5_FailuresForwarded ==
  \A s \in Slots :
    (req[s].promise = "rejected" \/ req[s].cb = "rejected") =>
      /\ fwd[s] = <<req[s].error>>
      /\ res[s] = <<>>

\* C6: once the move has been started: a move that ends with an error
\* forwards a 500, sends no response and leaves the photo as it is; and a 200
\* response is sent only when the stored entity of that id carries the
\* filename the response gives as data.
C6_ResponseImpliesPersisted ==
  [][\A s \in Slots :
       /\ (IsUpload(s) /\ req[s].pc = "moving" /\ req'[s].pc = "done") =>
            /\ fwd'[s] = <<ErrorResponse("Problem with file upload. Try again later.", 0, 500)>>
            /\ res'[s] = <<>>
            /\ store' = store
       /\ (IsUpload(s) /\ Sends(s)) =>
            /\ res'[s][1].status = 200
            /\ req[s].id \in DOMAIN store'
            /\ store'[req[s].id].photo = res'[s][1].body.data]_vars

\* The configured maximum, when FILE_MAX_UPLOAD_LIMIT is set to a number.
MaxConfigured == env # Undefined /\ env.s # <<>> /\ DigitPrefix(env.s) = env.s

MaxUploadSize == DigitsValue(env.s)

\* C9: the checks of the upload handler apply in order, the first failure
\* winning: missing entity 404; else no file 400; else non-image MIME type 400;
\* else size above the configured maximum 400; else the move is started. So,
\* for an existing entity and an image, the 400 is forwarded whenever
\* size > maximum and the move is started whenever size <= maximum.
C9_ChecksInOrder ==
  \A s \in Slots :
    (IsUpload(s) /\ req[s].promise # "rejected") =>
      LET r == req[s]
          first == IF fwd[s] = <<>> THEN "" ELSE fwd[s][1].message.text
          refused == ~moved[s] /\ r.pc = "done" /\ res[s] = <<>> /\ Len(fwd[s]) = 1
      IN IF r.bootcamp = Null
         THEN refused /\ ForwardedStatus(s) = {404}
         ELSE IF r.files = Undefined
         THEN refused /\ ForwardedStatus(s) = {400} /\ first = "Please upload a file."
         ELSE IF NonImageAttached(s)
         THEN refused /\ ForwardedStatus(s) = {400} /\ first = "Please upload an image file."
         ELSE MaxConfigured =>
                IF r.files.file.size > MaxUploadSize
                THEN /\ refused /\ ForwardedStatus(s) = {400}
                     /\ first = "Please upload an image less than ${limit}mb."
                ELSE moved[s] /\ ForwardedStatus(s) \cap {404, 400} = {}

\* With a maximum configured: one upload of an image of exactly the maximum
\* size has started its move, and one of a larger image was refused.
C9_Witness ==
  /\ MaxConfigured
  /\ \E s, u \in Slots :
       /\ IsUpload(s) /\ moved[s] /\ req[s].files.file.size = MaxUploadSize
       /\ IsUpload(u) /\ ~moved[u] /\ req[u].bootcamp # Null
       /\ req[u].files # Undefined /\ ~NonImageAttached(u)
       /\ req[u].files.file.size > MaxUploadSize
       /\ ForwardedStatus(u) = {400}

ReadOnlyHandlers == {"getBootcamps", "getBootcamp", "getBootcampsByDistance"}

\* C10: the list, get-by-id and geo-radius handlers never change the store;
\* an update, delete or photo upload that forwards a 404 or 400 error has not
\* changed the store; and each of these invocations ends with exactly one
\* outcome: one response or one forwarded error, never both.
C10_Frame ==
  \A s \in Slots :
    /\ req[s].h \in ReadOnlyHandlers =>
         /\ ~wrote[s]
         /\ Len(res[s]) + Len(fwd[s]) <= 1
         /\ req[s].pc = "done" => Len(res[s]) + Len(fwd[s]) = 1
    /\ (/\ req[s].h \in {"updateBootcamp", "deleteBootcamp", "bootcampUploadPhoto"}
        /\ ForwardedStatus(s) \cap {404, 400} # {}) =>
         /\ ~wrote[s]
         /\ req[s].pc = "done"
         /\ Len(fwd[s]) = 1 /\ res[s] = <<>>

\* A read has answered while the other connection's request was refused with
\* a 404, in a store that a created document has been written to.
C10_Witness ==
  \E s, u \in Slots :
    /\ req[s].h \in ReadOnlyHandlers /\ res[s] # <<>>
    /\ req[u].h \in {"updateBootcamp", "deleteBootcamp", "bootcampUploadPhoto"}
    /\ ForwardedStatus(u) = {404}
    /\ nextId > 1

====
